---- MODULE Spec2Model ----
(***************************************************************************)
(* Model of src/backend/kernel_tools/document_tools.py: class              *)
(* DocumentTools with read_document_contents, save_to_excel,               *)
(* get_all_kernel_functions and generate_tools_json_doc.                   *)
(*                                                                         *)
(* Text is modelled as sequences of one-character strings, HTML as the     *)
(* node tree BeautifulSoup builds from it, the bytes of an .xlsx file as   *)
(* the workbook they encode, and the manifest's JSON text as its token     *)
(* sequence (the arguments string inside it character by character).      *)
(*                                                                         *)
(* Line 16 of the file ends in a line-continuation backslash, which joins  *)
(* it to the assignment of agent_name on line 17, so the file as it stands *)
(* does not compile.  The model takes the two assignments as the two       *)
(* statements they are laid out as.                                        *)
(***************************************************************************)
EXTENDS Integers, Sequences, FiniteSets, TLC

VARIABLES
    \* ---- the two document operations, one entry per call in flight ----
    op,            \* which coroutine the call runs ("none" before it starts)
    pc,            \* position of the call in its body
    document,      \* argument of read_document_contents
    html_content,  \* argument of save_to_excel
    tables,        \* soup.find_all('table')
    i,             \* number of loop iterations of save_to_excel completed
    excel_writer,  \* the pd.ExcelWriter: its sheets and whether it is closed
    result,        \* the value the call returned (NoValue until it returns)
    error,         \* the exception the call ended with (NoError otherwise)
    file,          \* contents of 'output.xlsx' in the working directory
    last_read,     \* the previous completed read_document_contents call
    \* ---- the two reflection helpers ----
    cls,           \* the class the classmethods are invoked on
    kernel_functions, \* what get_all_kernel_functions returned
    tools_json     \* what generate_tools_json_doc returned

doc_vars == <<op, pc, document, html_content, tables, i, excel_writer,
              result, error, file, last_read>>
reflect_vars == <<cls, kernel_functions, tools_json>>
vars == <<op, pc, document, html_content, tables, i, excel_writer,
          result, error, file, last_read, cls, kernel_functions, tools_json>>

\* ------------------------------------------------------------------ bounds
NumCalls == 2      \* call slots
MaxNodes == 2      \* top-level nodes of an html_content argument
MaxParams == 2     \* parameters of a method added to the class

Calls == 1..NumCalls

\* What a call has returned: nothing yet, a str (the parsed HTML it holds) or
\* bytes (the file contents they are).
NoData == [state |-> "nodata", sheets |-> <<>>]
NoValue == [type |-> "none", text |-> <<>>, data |-> NoData]
StrValue(h) == [type |-> "str", text |-> h, data |-> NoData]
BytesValue(f) == [type |-> "bytes", text |-> <<>>, data |-> f]
NoRead == [some |-> FALSE, document |-> "none", result |-> NoValue]
NotCalled == [called |-> FALSE, value |-> <<>>]
Returned(v) == [called |-> TRUE, value |-> v]
NoError == [at |-> "nowhere", table |-> 0]

\* ------------------------------------------------------------------- HTML
\* A node of the parsed document: a <table> element (with an identity, the
\* amount of row data it holds and the nodes nested in it) or other content.
Text == [tag |-> "text", id |-> "t", rows |-> "none", kids |-> <<>>]
Table(id, rows, kids) == [tag |-> "table", id |-> id, rows |-> rows, kids |-> kids]

\* The literal returned by read_document_contents: prose around two tables.
HardcodedHtml ==
    << Text, Table("Sales Numbers for Q1", "some", <<>>),
       Text, Table("Projected Sales Numbers", "some", <<>>), Text >>

NodeKinds ==
    { Text,
      Table("A", "some", <<>>),
      Table("E", "none", <<>>),                         \* a table without rows
      Table("X", "over", <<>>),                         \* more rows than a sheet holds
      Table("N", "some", <<Table("I", "some", <<>>)>>), \* a table nested in a table
      Table("O", "some", <<Table("Y", "over", <<>>)>>)  \* an oversized table nested
    }

SeqsUpTo(S, n) == UNION { [1..k -> S] : k \in 0..n }

HtmlInputs == SeqsUpTo(NodeKinds, MaxNodes) \cup {HardcodedHtml}
Documents == {"doc1", "doc2"}

RECURSIVE FindAll(_)
\* soup.find_all('table'): every <table> element, in document order,
\* nested ones included.
FindAll(nodes) ==
    IF nodes = <<>> THEN <<>>
    ELSE LET n == Head(nodes)
         IN  (IF n.tag = "table" THEN <<n>> ELSE <<>>)
             \o FindAll(n.kids) \o FindAll(Tail(nodes))

DataFrame(t) == [src |-> t.id, rows |-> t.rows]

RECURSIVE FramesOf(_)
FramesOf(ts) ==
    IF ts = <<>> THEN <<>>
    ELSE (IF Head(ts).rows = "none" THEN <<>> ELSE <<DataFrame(Head(ts))>>)
         \o FramesOf(Tail(ts))

\* pd.read_html(StringIO(str(table))): one data frame per table of the
\* fragment that has rows, in document order.
ReadHtml(table) == FramesOf(FindAll(<<table>>))

\* (variant: the sheet named by the loop index itself)
SheetNameFromIndex(idx) == "Table_" \o ToString(idx)

\* f'Table_{i+1}' for the loop index i of enumerate(tables)
SheetName(idx) == "Table_" \o ToString(idx + 1)

\* The bytes of an .xlsx file holding these sheets.
Workbook(sheets) == [state |-> "xlsx", sheets |-> sheets]
Absent == [state |-> "absent", sheets |-> <<>>]     \* no such file
EmptyFile == [state |-> "empty", sheets |-> <<>>]   \* a file of zero bytes

\* ------------------------------------------------- the document operations
Raise(c, at, k) ==
    \* an exception leaves the coroutine: nothing in the body catches it
    /\ pc' = [pc EXCEPT ![c] = "raised"]
    /\ error' = [error EXCEPT ![c] = [at |-> at, table |-> k]]

\* (variant: the tables come from the document)
ReadDocumentContentsOfDocument(c) ==
    /\ pc[c] = "idle"
    /\ \E d \in Documents :
          /\ document' = [document EXCEPT ![c] = d]
          /\ result' = [result EXCEPT ![c] =
                           StrValue(IF d = "doc1" THEN HardcodedHtml ELSE <<>>)]
    /\ op' = [op EXCEPT ![c] = "read_document_contents"]
    /\ pc' = [pc EXCEPT ![c] = "done"]
    /\ UNCHANGED <<html_content, tables, i, excel_writer, error, file, last_read>>
    /\ UNCHANGED reflect_vars

\* read_document_contents(document): returns the literal, whatever the
\* argument is.
ReadDocumentContents(c) ==
    /\ pc[c] = "idle"
    /\ \E d \in Documents : document' = [document EXCEPT ![c] = d]
    /\ op' = [op EXCEPT ![c] = "read_document_contents"]
    /\ result' = [result EXCEPT ![c] = StrValue(HardcodedHtml)]
    /\ pc' = [pc EXCEPT ![c] = "done"]
    /\ UNCHANGED <<html_content, tables, i, excel_writer, error, file, last_read>>
    /\ UNCHANGED reflect_vars

\* save_to_excel, lines 42-45: parse the argument and find its tables.
Parse(c) ==
    /\ pc[c] = "idle"
    /\ \E h \in HtmlInputs :
          /\ html_content' = [html_content EXCEPT ![c] = h]
          /\ tables' = [tables EXCEPT ![c] = FindAll(h)]
    /\ op' = [op EXCEPT ![c] = "save_to_excel"]
    /\ pc' = [pc EXCEPT ![c] = "open"]
    /\ UNCHANGED <<document, i, excel_writer, result, error, file, last_read>>
    /\ UNCHANGED reflect_vars

\* save_to_excel, line 48: pd.ExcelWriter('output.xlsx', engine='xlsxwriter').
\* Whether the path is opened (and truncated) here or only when the writer
\* is closed depends on the pandas release: both outcomes are allowed.
OpenWriter(c) ==
    /\ pc[c] = "open"
    /\ \/ /\ excel_writer' = [excel_writer EXCEPT ![c] = [sheets |-> <<>>, closed |-> FALSE]]
          /\ file' \in {file, EmptyFile}
          /\ pc' = [pc EXCEPT ![c] = "loop"]
          /\ UNCHANGED error
       \/ /\ Raise(c, "ExcelWriter", 0)
          /\ UNCHANGED <<excel_writer, file>>
    /\ UNCHANGED <<op, document, html_content, tables, i, result, last_read>>
    /\ UNCHANGED reflect_vars

\* (variant: a table that cannot be converted or written is skipped)
LoopBodySkipping(c) ==
    /\ pc[c] = "loop"
    /\ i[c] < Len(tables[c])
    /\ LET table == tables[c][i[c] + 1]
           frames == ReadHtml(table)
       IN  IF frames = <<>> \/ frames[1].rows = "over"
           THEN /\ i' = [i EXCEPT ![c] = @ + 1]
                /\ UNCHANGED <<pc, error, excel_writer>>
           ELSE /\ excel_writer' =
                      [excel_writer EXCEPT ![c].sheets =
                          Append(@, [name |-> SheetName(i[c]), df |-> frames[1]])]
                /\ i' = [i EXCEPT ![c] = @ + 1]
                /\ UNCHANGED <<pc, error>>
    /\ UNCHANGED <<op, document, html_content, tables, result, file, last_read>>
    /\ UNCHANGED reflect_vars

\* save_to_excel, lines 51-55: one iteration of the loop over the tables.
LoopBody(c) ==
    /\ pc[c] = "loop"
    /\ i[c] < Len(tables[c])
    /\ LET table == tables[c][i[c] + 1]
           frames == ReadHtml(table)
       IN  IF frames = <<>>
           THEN \* [0] of an empty list
                /\ Raise(c, "read_html", i[c] + 1)
                /\ UNCHANGED <<i, excel_writer>>
           ELSE LET df == frames[1]
                IN  IF df.rows = "over"
                    THEN \* the data frame does not fit a worksheet
                         /\ Raise(c, "to_excel", i[c] + 1)
                         /\ UNCHANGED <<i, excel_writer>>
                    ELSE /\ excel_writer' =
                               [excel_writer EXCEPT ![c].sheets =
                                   Append(@, [name |-> SheetName(i[c]), df |-> df])]
                         /\ i' = [i EXCEPT ![c] = @ + 1]
                         /\ UNCHANGED <<pc, error>>
    /\ UNCHANGED <<op, document, html_content, tables, result, file, last_read>>
    /\ UNCHANGED reflect_vars

\* save_to_excel, line 58: excel_writer.close() writes the workbook to the
\* file, or fails with an I/O error.
CloseWriter(c) ==
    /\ pc[c] = "loop"
    /\ i[c] = Len(tables[c])
    /\ \/ /\ file' = Workbook(excel_writer[c].sheets)
          /\ excel_writer' = [excel_writer EXCEPT ![c].closed = TRUE]
          /\ pc' = [pc EXCEPT ![c] = "read"]
          /\ UNCHANGED error
       \/ /\ Raise(c, "close", 0)
          /\ UNCHANGED <<excel_writer, file>>
    /\ UNCHANGED <<op, document, html_content, tables, i, result, last_read>>
    /\ UNCHANGED reflect_vars

\* save_to_excel, lines 60-62: read output.xlsx back and return its bytes.
ReadBack(c) ==
    /\ pc[c] = "read"
    /\ \/ /\ file # Absent
          /\ result' = [result EXCEPT ![c] = BytesValue(file)]
          /\ pc' = [pc EXCEPT ![c] = "done"]
          /\ UNCHANGED error
       \/ /\ Raise(c, "open", 0)
          /\ UNCHANGED result
    /\ UNCHANGED <<op, document, html_content, tables, i, excel_writer, file, last_read>>
    /\ UNCHANGED reflect_vars

\* The caller takes the outcome of the call; its frame is gone.
Finish(c) ==
    /\ pc[c] \in {"done", "raised"}
    /\ last_read' = IF op[c] = "read_document_contents"
                    THEN [some |-> TRUE, document |-> document[c], result |-> result[c]]
                    ELSE last_read
    /\ op' = [op EXCEPT ![c] = "none"]
    /\ pc' = [pc EXCEPT ![c] = "idle"]
    /\ document' = [document EXCEPT ![c] = "none"]
    /\ html_content' = [html_content EXCEPT ![c] = <<>>]
    /\ tables' = [tables EXCEPT ![c] = <<>>]
    /\ i' = [i EXCEPT ![c] = 0]
    /\ excel_writer' = [excel_writer EXCEPT ![c] = [sheets |-> <<>>, closed |-> FALSE]]
    /\ result' = [result EXCEPT ![c] = NoValue]
    /\ error' = [error EXCEPT ![c] = NoError]
    /\ UNCHANGED file
    /\ UNCHANGED reflect_vars


\* ------------------------------------------------------------------- text
\* A Python str is a sequence of one-character strings.
LowerLetters == <<"a", "b", "c", "d", "e", "f", "g", "h", "i", "j", "k", "l", "m", "n", "o", "p", "q", "r", "s", "t", "u", "v", "w", "x", "y", "z">>
UpperLetters == <<"A", "B", "C", "D", "E", "F", "G", "H", "I", "J", "K", "L", "M", "N", "O", "P", "Q", "R", "S", "T", "U", "V", "W", "X", "Y", "Z">>
\* The characters the model uses, in code-point order.
CodePoints == <<"\n", " ", "\"", "'", "(", ")", ",", ".", "0", "1", "2", "3", "4", "5", "6", "7", "8", "9", ":", "<", ">", "A", "B", "C", "D", "E", "F", "G", "H", "I", "J", "K", "L", "M", "N", "O", "P", "Q", "R", "S", "T", "U", "V", "W", "X", "Y", "Z", "[", "]", "_", "a", "b", "c", "d", "e", "f", "g", "h", "i", "j", "k", "l", "m", "n", "o", "p", "q", "r", "s", "t", "u", "v", "w", "x", "y", "z", "{", "|", "}">>

s_kernel_function == <<"k", "e", "r", "n", "e", "l", "_", "f", "u", "n", "c", "t", "i", "o", "n">>
s_get_all_kernel_functions == <<"g", "e", "t", "_", "a", "l", "l", "_", "k", "e", "r", "n", "e", "l", "_", "f", "u", "n", "c", "t", "i", "o", "n", "s">>
s_generate_tools_json_doc == <<"g", "e", "n", "e", "r", "a", "t", "e", "_", "t", "o", "o", "l", "s", "_", "j", "s", "o", "n", "_", "d", "o", "c">>
s_read_document_contents == <<"r", "e", "a", "d", "_", "d", "o", "c", "u", "m", "e", "n", "t", "_", "c", "o", "n", "t", "e", "n", "t", "s">>
s_save_to_excel == <<"s", "a", "v", "e", "_", "t", "o", "_", "e", "x", "c", "e", "l">>
s_formatting_instructions == <<"f", "o", "r", "m", "a", "t", "t", "i", "n", "g", "_", "i", "n", "s", "t", "r", "u", "c", "t", "i", "o", "n", "s">>
s_agent_name == <<"a", "g", "e", "n", "t", "_", "n", "a", "m", "e">>
s_Tech_Agent == <<"T", "e", "c", "h", "_", "A", "g", "e", "n", "t">>
s_Hr_Agent == <<"H", "r", "_", "A", "g", "e", "n", "t">>
s_self == <<"s", "e", "l", "f">>
s_cls == <<"c", "l", "s">>
s_return == <<"r", "e", "t", "u", "r", "n">>
s_document == <<"d", "o", "c", "u", "m", "e", "n", "t">>
s_html_content == <<"h", "t", "m", "l", "_", "c", "o", "n", "t", "e", "n", "t">>
s_string == <<"s", "t", "r", "i", "n", "g">>
s_int == <<"i", "n", "t">>
s_float == <<"f", "l", "o", "a", "t">>
s_bool == <<"b", "o", "o", "l">>
s_boolean == <<"b", "o", "o", "l", "e", "a", "n">>
s_agent == <<"a", "g", "e", "n", "t">>
s_function == <<"f", "u", "n", "c", "t", "i", "o", "n">>
s_description == <<"d", "e", "s", "c", "r", "i", "p", "t", "i", "o", "n">>
s_arguments == <<"a", "r", "g", "u", "m", "e", "n", "t", "s">>
s_title == <<"t", "i", "t", "l", "e">>
s_type == <<"t", "y", "p", "e">>

RECURSIVE IndexIn(_, _, _)
IndexIn(ch, seq, k) ==
    IF k > Len(seq) THEN 0 ELSE IF seq[k] = ch THEN k ELSE IndexIn(ch, seq, k + 1)

Ord(ch) == IndexIn(ch, CodePoints, 1)
IsLower(ch) == IndexIn(ch, LowerLetters, 1) > 0
IsUpper(ch) == IndexIn(ch, UpperLetters, 1) > 0
IsCased(ch) == IsLower(ch) \/ IsUpper(ch)
ToLower(ch) == IF IsUpper(ch) THEN LowerLetters[IndexIn(ch, UpperLetters, 1)] ELSE ch
ToUpper(ch) == IF IsLower(ch) THEN UpperLetters[IndexIn(ch, LowerLetters, 1)] ELSE ch
IsSpace(ch) == ch \in {" ", "\n"}

\* str.lower()
Lower(s) == [k \in 1..Len(s) |-> ToLower(s[k])]

\* str.replace(old, new) for one-character old and new
Replace(s, old, new) == [k \in 1..Len(s) |-> IF s[k] = old THEN new ELSE s[k]]

\* str.title(): a cased character is upper-cased when it follows an uncased
\* one (or starts the string) and lower-cased when it follows a cased one.
Title(s) ==
    [k \in 1..Len(s) |->
        IF k > 1 /\ IsCased(s[k - 1]) THEN ToLower(s[k]) ELSE ToUpper(s[k])]

\* str.startswith(prefix)
StartsWith(s, prefix) ==
    /\ Len(s) >= Len(prefix)
    /\ SubSeq(s, 1, Len(prefix)) = prefix

\* sub in s
Contains(sub, s) ==
    \E k \in 0..(Len(s) - Len(sub)) : SubSeq(s, k + 1, k + Len(sub)) = sub

RECURSIVE LStrip(_)
LStrip(s) == IF s # <<>> /\ IsSpace(Head(s)) THEN LStrip(Tail(s)) ELSE s

RECURSIVE RStrip(_)
RStrip(s) ==
    IF s # <<>> /\ IsSpace(s[Len(s)]) THEN RStrip(SubSeq(s, 1, Len(s) - 1)) ELSE s

\* str.strip()
Strip(s) == RStrip(LStrip(s))

RECURSIVE Join(_, _)
\* sep.join(parts)
Join(sep, parts) ==
    IF parts = <<>> THEN <<>>
    ELSE IF Len(parts) = 1 THEN parts[1]
    ELSE parts[1] \o sep \o Join(sep, Tail(parts))

\* a < b for two str, as sorted() compares them
StrLess(a, b) ==
    \E k \in 1..(Len(b)) :
        /\ \A j \in 1..(k - 1) : j <= Len(a) /\ a[j] = b[j]
        /\ \/ k = Len(a) + 1
           \/ k <= Len(a) /\ Ord(a[k]) < Ord(b[k])

\* ------------------------------------------------------------- reflection
\* Names and texts the class model uses.
s_tool == <<"t", "o", "o", "l">>
s__tool == <<"_", "t", "o", "o", "l">>
s_a1b_URL == <<"a", "1", "b", "_", "U", "R", "L">>
s_fn == <<"f", "n">>
s_n == <<"n">>
s_r == <<"r">>
s_b == <<"b">>
s_flag == <<"f", "l", "a", "g">>
s_s == <<"s">>
s_p == <<"p">>
s_str == <<"s", "t", "r">>
s_bytes == <<"b", "y", "t", "e", "s">>
s_KernelFunction == <<"K", "e", "r", "n", "e", "l", "F", "u", "n", "c", "t", "i", "o", "n">>
repr_str == <<"<", "c", "l", "a", "s", "s", " ", "'", "s", "t", "r", "'", ">">>
repr_bytes == <<"<", "c", "l", "a", "s", "s", " ", "'", "b", "y", "t", "e", "s", "'", ">">>
repr_KernelFunction == <<"<", "c", "l", "a", "s", "s", " ", "'", "s", "e", "m", "a", "n", "t", "i", "c", "_", "k", "e", "r", "n", "e", "l", ".", "f", "u", "n", "c", "t", "i", "o", "n", "s", ".", "k", "e", "r", "n", "e", "l", "_", "f", "u", "n", "c", "t", "i", "o", "n", ".", "K", "e", "r", "n", "e", "l", "F", "u", "n", "c", "t", "i", "o", "n", "'", ">">>
repr_int_or_None == <<"i", "n", "t", " ", "|", " ", "N", "o", "n", "e">>
repr_float_or_int == <<"f", "l", "o", "a", "t", " ", "|", " ", "i", "n", "t">>
repr_bool_or_float == <<"b", "o", "o", "l", " ", "|", " ", "f", "l", "o", "a", "t">>
repr_bool_or_None == <<"b", "o", "o", "l", " ", "|", " ", "N", "o", "n", "e">>
repr_str_or_None == <<"s", "t", "r", " ", "|", " ", "N", "o", "n", "e">>
repr_Point_or_None == <<"g", "e", "o", ".", "P", "o", "i", "n", "t", " ", "|", " ", "N", "o", "n", "e">>
doc_save_to_excel == <<"\n", " ", " ", " ", " ", " ", " ", " ", " ", "C", "o", "n", "v", "e", "r", "t", "s", " ", "H", "T", "M", "L", " ", "t", "a", "b", "l", "e", "s", " ", "i", "n", " ", "t", "h", "e", " ", "p", "r", "o", "v", "i", "d", "e", "d", " ", "H", "T", "M", "L", " ", "c", "o", "n", "t", "e", "n", "t", " ", "t", "o", " ", "a", "n", " ", "E", "x", "c", "e", "l", " ", "f", "i", "l", "e", ".", "\n", " ", " ", " ", " ">>
doc_padded == <<" ", "D", "o", "c", ".", " ", "\n">>
doc_blank == <<" ">>
desc_read_document_contents == <<"R", "e", "a", "d", " ", "c", "o", "n", "t", "e", "n", "t", "s", " ", "o", "f", " ", "t", "h", "e", " ", "d", "a", "t", "a", " ", "p", "r", "o", "v", "i", "d", "e", "d", ",", " ", "e", "x", "t", "r", "a", "c", "t", " ", "t", "a", "b", "l", "e", "s", " ", "a", "n", "d", " ", "r", "e", "t", "u", "r", "n", " ", "t", "h", "e", "m", " ", "o", "n", " ", "H", "T", "M", "L", " ", "f", "o", "r", "m", "a", "t", ".">>
desc_save_to_excel == <<"S", "a", "v", "e", " ", "t", "h", "e", " ", "e", "x", "t", "r", "a", "c", "t", "e", "d", " ", "H", "T", "M", "L", " ", "t", "a", "b", "l", "e", "s", " ", "t", "o", " ", "a", "n", " ", "E", "x", "c", "e", "l", " ", "f", "i", "l", "e", ".">>
desc_short == <<"D", "e", "s", "c">>

None_ == [some |-> FALSE, v |-> <<>>]      \* None, or an attribute that is not there
Some(v) == [some |-> TRUE, v |-> v]

\* A type hint as get_type_hints returns it: whether the object has a
\* __name__, that name, and its str().
NoHint == [present |-> FALSE, has_name |-> FALSE, name |-> <<>>, text |-> <<>>]
NamedType(name, text) == [present |-> TRUE, has_name |-> TRUE, name |-> name, text |-> text]
UnnamedType(text) == [present |-> TRUE, has_name |-> FALSE, name |-> <<>>, text |-> text]

t_str == NamedType(s_str, repr_str)
t_bytes == NamedType(s_bytes, repr_bytes)
t_KernelFunction == NamedType(s_KernelFunction, repr_KernelFunction)

Param(name, hint) == [name |-> name, hint |-> hint]

\* The __kernel_function__ attribute: absent, or an object that may carry a
\* description attribute.
NoMarker == [present |-> FALSE, description |-> None_]
MarkerFlag == [present |-> TRUE, description |-> None_]
MarkerWith(d) == [present |-> TRUE, description |-> Some(d)]

\* A member of a class as getattr(cls, name) yields it: kind is "function"
\* for a plain function (a staticmethod or an instance method looked up on
\* the class), "method" for a bound classmethod, "data" for anything else.
Member(name, kind, marker, doc, params, returns) ==
    [name |-> name, kind |-> kind, marker |-> marker, doc |-> doc,
     params |-> params, returns |-> returns]

DataMember(name) == Member(name, "data", NoMarker, None_, <<>>, NoHint)

\* The members class DocumentTools defines (lines 14-172).  described says
\* whether the decorator's marker object carries the description it was
\* given.
DocumentToolsMembers(described) ==
    { DataMember(s_formatting_instructions),
      DataMember(s_agent_name),
      Member(s_read_document_contents, "function",
             IF described THEN MarkerWith(desc_read_document_contents) ELSE MarkerFlag,
             None_, <<Param(s_document, t_bytes)>>, t_str),
      Member(s_save_to_excel, "function",
             IF described THEN MarkerWith(desc_save_to_excel) ELSE MarkerFlag,
             Some(doc_save_to_excel), <<Param(s_html_content, t_str)>>, t_bytes),
      Member(s_get_all_kernel_functions, "method", NoMarker, Some(doc_padded),
             <<Param(s_cls, NoHint)>>, NoHint),
      Member(s_generate_tools_json_doc, "method", NoMarker, Some(doc_padded),
             <<Param(s_cls, NoHint)>>, t_str) }

DocumentTools == [agent_name |-> s_Hr_Agent, members |-> DocumentToolsMembers(FALSE)]

\* A subclass: the members it defines replace inherited ones of that name.
Subclass(base, defined) ==
    [agent_name |-> base.agent_name,
     members |-> { m \in base.members : \A d \in defined : d.name # m.name }
                 \cup defined]

RECURSIVE SortByName(_)
SortByName(ms) ==
    IF ms = {} THEN <<>>
    ELSE LET m == CHOOSE x \in ms : \A y \in ms \ {x} : StrLess(x.name, y.name)
         IN  <<m>> \o SortByName(ms \ {m})

\* inspect.getmembers(cls, predicate=inspect.isfunction): the members that
\* are plain functions, sorted by name.
GetMembers(c) == SortByName({ m \in c.members : m.kind = "function" })

\* hasattr(method, "__kernel_function__")
HasKernelFunctionAttr(m) == m.marker.present

RECURSIVE AnnotationItems(_)
AnnotationItems(ps) ==
    IF ps = <<>> THEN <<>>
    ELSE (IF Head(ps).hint.present
          THEN << <<"'">> \o Head(ps).name \o <<"'", ":", " ">> \o Head(ps).hint.text >>
          ELSE <<>>)
         \o AnnotationItems(Tail(ps))

\* str(method.__annotations__): the annotated parameters and the return
\* annotation, each as 'name': repr.
AnnotationsText(m) ==
    <<"{">> \o Join(<<",", " ">>,
                    AnnotationItems(Append(m.params, Param(s_return, m.returns))))
            \o <<"}">>

\* get_all_kernel_functions, lines 78-87: whether the loop keeps a member.
KernelFunctionKept(m) ==
    /\ ~ (StartsWith(m.name, <<"_">>) \/ m.name = s_get_all_kernel_functions)
    /\ \/ HasKernelFunctionAttr(m)
       \/ Contains(s_kernel_function, AnnotationsText(m))

RECURSIVE KernelFunctionsOf(_)
KernelFunctionsOf(ms) ==
    IF ms = <<>> THEN <<>>
    ELSE (IF KernelFunctionKept(Head(ms))
          THEN <<[key |-> Head(ms).name, value |-> Head(ms)]>>
          ELSE <<>>)
         \o KernelFunctionsOf(Tail(ms))

\* get_all_kernel_functions(cls): the dict, as its items in insertion order.
get_all_kernel_functions(c) == KernelFunctionsOf(GetMembers(c))

\* (variant: the two assignments of lines 112-119 in the other order, so
\* that the docstring wins)
DescriptionDocstringFirst(m) ==
    IF m.doc.some /\ m.doc.v # <<>> THEN Strip(m.doc.v)
    ELSE IF HasKernelFunctionAttr(m) /\ m.marker.description.some
         THEN m.marker.description.v
         ELSE <<>>

\* generate_tools_json_doc, lines 111-119: the docstring, stripped, unless
\* the marker object carries a non-empty description.
Description(m) ==
    LET fromDoc == IF m.doc.some /\ m.doc.v # <<>> THEN Strip(m.doc.v) ELSE <<>>
    IN  IF HasKernelFunctionAttr(m) /\ m.marker.description.some
           /\ m.marker.description.v # <<>>
        THEN m.marker.description.v
        ELSE fromDoc

\* (variant: the tests of lines 144-149 with 'float' tried before 'int')
ParamTypeFloatFirst(hint) ==
    IF ~ hint.present THEN s_string
    ELSE IF hint.has_name THEN Lower(hint.name)
    ELSE LET param_type == Lower(hint.text)
         IN  IF Contains(s_float, param_type) THEN s_float
             ELSE IF Contains(s_int, param_type) THEN s_int
             ELSE IF Contains(s_bool, param_type) THEN s_boolean
             ELSE s_string

\* generate_tools_json_doc, lines 135-151
ParamType(hint) ==
    IF ~ hint.present THEN s_string
    ELSE IF hint.has_name THEN Lower(hint.name)
    ELSE LET param_type == Lower(hint.text)
         IN  IF Contains(s_int, param_type) THEN s_int
             ELSE IF Contains(s_float, param_type) THEN s_float
             ELSE IF Contains(s_bool, param_type) THEN s_boolean
             ELSE s_string

Item(k, v) == [key |-> k, value |-> v]

RECURSIVE ArgsDictOfKeepSelf(_)
\* (variant: line 131 skipping 'cls' only)
ArgsDictOfKeepSelf(ps) ==
    IF ps = <<>> THEN <<>>
    ELSE (IF Head(ps).name = s_cls
          THEN <<>>
          ELSE << Item(Head(ps).name,
                       << Item(s_description, Head(ps).name),
                          Item(s_title, Title(Replace(Head(ps).name, "_", " "))),
                          Item(s_type, ParamType(Head(ps).hint)) >>) >>)
         \o ArgsDictOfKeepSelf(Tail(ps))

RECURSIVE ArgsDictOf(_)
\* generate_tools_json_doc, lines 129-159: the loop over sig.parameters
ArgsDictOf(ps) ==
    IF ps = <<>> THEN <<>>
    ELSE (IF Head(ps).name \in {s_cls, s_self}
          THEN <<>>
          ELSE << Item(Head(ps).name,
                       << Item(s_description, Head(ps).name),
                          Item(s_title, Title(Replace(Head(ps).name, "_", " "))),
                          Item(s_type, ParamType(Head(ps).hint)) >>) >>)
         \o ArgsDictOf(Tail(ps))

RECURSIVE JsonEscape(_)
\* the body of a JSON string literal
JsonEscape(str) ==
    IF str = <<>> THEN <<>>
    ELSE (CASE Head(str) = "\"" -> <<"\\", "\"">>
            [] Head(str) = "\\" -> <<"\\", "\\">>
            [] Head(str) = "\n" -> <<"\\", "n">>
            [] OTHER -> <<Head(str)>>)
         \o JsonEscape(Tail(str))

JsonString(str) == <<"\"">> \o JsonEscape(str) \o <<"\"">>

\* json.dumps of a dict of str: '{"k": "v", ...}'
JsonDumpsFlat(items) ==
    <<"{">>
    \o Join(<<",", " ">>,
            [k \in 1..Len(items) |->
                JsonString(items[k].key) \o <<":", " ">> \o JsonString(items[k].value)])
    \o <<"}">>

\* json.dumps(args_dict): a dict of dicts of str
JsonDumpsArgs(args_dict) ==
    <<"{">>
    \o Join(<<",", " ">>,
            [k \in 1..Len(args_dict) |->
                JsonString(args_dict[k].key) \o <<":", " ">>
                \o JsonDumpsFlat(args_dict[k].value)])
    \o <<"}">>

\* (variant: the agent taken from AgentType.HR, not from cls)
ToolEntryHrAgent(c, m) ==
    << Item(s_agent, s_Hr_Agent),
       Item(s_function, m.name),
       Item(s_description, Description(m)),
       Item(s_arguments, Replace(JsonDumpsArgs(ArgsDictOf(m.params)), "\"", "'")) >>

\* generate_tools_json_doc, lines 162-167
ToolEntry(c, m) ==
    << Item(s_agent, c.agent_name),
       Item(s_function, m.name),
       Item(s_description, Description(m)),
       Item(s_arguments, Replace(JsonDumpsArgs(ArgsDictOf(m.params)), "\"", "'")) >>

\* (variant: the name filter of line 105 left out)
ToolListedAnyName(m) == HasKernelFunctionAttr(m)

\* generate_tools_json_doc, lines 105-109: whether the loop lists a member.
ToolListed(m) ==
    /\ ~ (StartsWith(m.name, <<"_">>) \/ m.name = s_generate_tools_json_doc)
    /\ HasKernelFunctionAttr(m)

RECURSIVE ToolsListOf(_, _)
ToolsListOf(c, ms) ==
    IF ms = <<>> THEN <<>>
    ELSE (IF ToolListed(Head(ms)) THEN <<ToolEntry(c, Head(ms))>> ELSE <<>>)
         \o ToolsListOf(c, Tail(ms))

\* A token of JSON text: punctuation, or a string literal and the str it
\* denotes.
Punct(ch) == [t |-> ch, str |-> <<>>]
StrTok(str) == [t |-> "string", str |-> str]

RECURSIVE JoinTokens(_)
JoinTokens(groups) ==
    IF groups = <<>> THEN <<>>
    ELSE IF Len(groups) = 1 THEN groups[1]
    ELSE groups[1] \o <<Punct(",")>> \o JoinTokens(Tail(groups))

ObjectTokens(items) ==
    <<Punct("{")>>
    \o JoinTokens([k \in 1..Len(items) |->
                     <<StrTok(items[k].key), Punct(":"), StrTok(items[k].value)>>])
    \o <<Punct("}")>>

\* json.dumps(tools_list, ensure_ascii=False, indent=2), as its tokens
JsonDumpsTools(tools_list) ==
    <<Punct("[")>>
    \o JoinTokens([k \in 1..Len(tools_list) |-> ObjectTokens(tools_list[k])])
    \o <<Punct("]")>>

\* generate_tools_json_doc(cls)
generate_tools_json_doc(c) == JsonDumpsTools(ToolsListOf(c, GetMembers(c)))

\* ------------------------------------------------ the reflection operations
GetAllKernelFunctions ==
    /\ kernel_functions' = Returned(get_all_kernel_functions(cls))
    /\ UNCHANGED <<cls, tools_json>>
    /\ UNCHANGED doc_vars

GenerateToolsJsonDoc ==
    /\ tools_json' = Returned(generate_tools_json_doc(cls))
    /\ UNCHANGED <<cls, kernel_functions>>
    /\ UNCHANGED doc_vars

\* ---- the classes the helpers are applied to: DocumentTools and the
\* subclasses that define one more member
ParamPool ==
    { Param(s_self, NoHint), Param(s_cls, NoHint), Param(s_a1b_URL, NoHint),
      Param(s_document, t_bytes),
      Param(s_fn, t_KernelFunction),
      Param(s_n, UnnamedType(repr_int_or_None)),
      Param(s_r, UnnamedType(repr_float_or_int)),
      Param(s_b, UnnamedType(repr_bool_or_float)),
      Param(s_flag, UnnamedType(repr_bool_or_None)),
      Param(s_s, UnnamedType(repr_str_or_None)),
      Param(s_p, UnnamedType(repr_Point_or_None)) }

\* signatures: parameter names are distinct
Signatures ==
    { ps \in SeqsUpTo(ParamPool, MaxParams) :
        \A j, k \in 1..Len(ps) : j # k => ps[j].name # ps[k].name }

Markers == {NoMarker, MarkerFlag, MarkerWith(<<>>), MarkerWith(desc_short)}
Docs == {None_, Some(<<>>), Some(doc_blank), Some(doc_padded)}

DefinedMembers ==
    { Member(name, kind, marker, doc, <<Param(s_html_content, NoHint)>>, returns) :
        name \in {s_tool, s__tool, s_generate_tools_json_doc, s_get_all_kernel_functions},
        kind \in {"function", "method"}, marker \in Markers, doc \in Docs,
        returns \in {NoHint, t_KernelFunction} }
    \cup
    { Member(s_tool, "function", marker, None_, ps, NoHint) :
        marker \in {NoMarker, MarkerFlag}, ps \in Signatures }

Classes ==
    { [agent_name |-> a, members |-> DocumentToolsMembers(described)] :
        a \in {s_Hr_Agent, s_Tech_Agent}, described \in BOOLEAN }
    \cup { Subclass(DocumentTools, {m}) : m \in DefinedMembers }

\* The class as the file defines it (reflection model comes below).
InitDoc ==
    /\ op = [c \in Calls |-> "none"]
    /\ pc = [c \in Calls |-> "idle"]
    /\ document = [c \in Calls |-> "none"]
    /\ html_content = [c \in Calls |-> <<>>]
    /\ tables = [c \in Calls |-> <<>>]
    /\ i = [c \in Calls |-> 0]
    /\ excel_writer = [c \in Calls |-> [sheets |-> <<>>, closed |-> FALSE]]
    /\ result = [c \in Calls |-> NoValue]
    /\ error = [c \in Calls |-> NoError]
    /\ file = Absent
    /\ last_read = NoRead

\* The coroutines hold no await: on one event loop a call runs to its end
\* before another starts.
Exclusive(c) == \A d \in Calls \ {c} : pc[d] = "idle"

Init ==
    /\ InitDoc
    /\ cls = DocumentTools
    /\ kernel_functions = NotCalled
    /\ tools_json = NotCalled

\* a call starts only on an idle loop
RunRead(c) == Exclusive(c) /\ ReadDocumentContents(c)
RunSave(c) == Exclusive(c) /\ Parse(c)

Next ==
    \E c \in Calls :
        \/ RunRead(c)
        \/ RunSave(c)
        \/ OpenWriter(c)
        \/ LoopBody(c)
        \/ CloseWriter(c)
        \/ ReadBack(c)
        \/ Finish(c)

Spec == Init /\ [][Next]_vars

\* Callers on several threads or worker processes sharing the working
\* directory, each making one call: the steps of the calls interleave freely.
NextThreads ==
    \E c \in Calls :
        \/ ReadDocumentContents(c)
        \/ Parse(c)
        \/ OpenWriter(c)
        \/ LoopBody(c)
        \/ CloseWriter(c)
        \/ ReadBack(c)

SpecThreads == Init /\ [][NextThreads]_vars


\* The reflection helpers applied to any class of Classes.
InitReflect ==
    /\ InitDoc
    /\ cls \in Classes
    /\ kernel_functions = NotCalled
    /\ tools_json = NotCalled

NextReflect == GetAllKernelFunctions \/ GenerateToolsJsonDoc

SpecReflect == InitReflect /\ [][NextReflect]_vars

\* =========================================================================
\* Reading the returned values back, for the properties below
\* =========================================================================

\* ---- the manifest, from its JSON tokens
ManifestCount(toks) == (Len(toks) - 1) \div 18
EntryTok(toks, k, j) == toks[1 + 18 * (k - 1) + j]
IsStringTok(tok) == tok.t = "string"

\* The text is an array of objects of four key/value pairs whose keys and
\* values are all string literals.
IsArrayOfEntries(toks) ==
    /\ Len(toks) >= 2
    /\ toks[1] = Punct("[") /\ toks[Len(toks)] = Punct("]")
    /\ \/ Len(toks) = 2
       \/ Len(toks) = 18 * ManifestCount(toks) + 1 /\ ManifestCount(toks) >= 1
    /\ \A k \in 1..ManifestCount(toks) :
          /\ EntryTok(toks, k, 1) = Punct("{")
          /\ EntryTok(toks, k, 17) = Punct("}")
          /\ \A j \in {3, 7, 11, 15} : EntryTok(toks, k, j) = Punct(":")
          /\ \A j \in {5, 9, 13} : EntryTok(toks, k, j) = Punct(",")
          /\ \A j \in {2, 6, 10, 14, 4, 8, 12, 16} : IsStringTok(EntryTok(toks, k, j))
          /\ k < ManifestCount(toks) => EntryTok(toks, k, 18) = Punct(",")

EntryKeys(toks, k) == [j \in 1..4 |-> EntryTok(toks, k, 4 * j - 2).str]
EntryValue(toks, k, key) ==
    LET j == CHOOSE j \in 1..4 : EntryKeys(toks, k)[j] = key
    IN  EntryTok(toks, k, 4 * j).str

\* ---- the arguments string, from its characters
RECURSIVE ClosingQuote(_, _)
ClosingQuote(str, k) ==
    IF k > Len(str) THEN 0 ELSE IF str[k] = "'" THEN k ELSE ClosingQuote(str, k + 1)

RECURSIVE LexFrom(_, _)
\* The tokens of a JSON text whose string literals are in single quotes.
LexFrom(str, k) ==
    IF k > Len(str) THEN <<>>
    ELSE IF str[k] = " " THEN LexFrom(str, k + 1)
    ELSE IF str[k] \in {"{", "}", ":", ","} THEN <<Punct(str[k])>> \o LexFrom(str, k + 1)
    ELSE IF str[k] = "'"
         THEN LET close == ClosingQuote(str, k + 1)
              IN  IF close = 0 THEN <<Punct("?")>>
                  ELSE <<StrTok(SubSeq(str, k + 1, close - 1))>> \o LexFrom(str, close + 1)
    ELSE <<Punct("?")>>

ArgsCount(toks) == (Len(toks) - 1) \div 16
ArgTok(toks, k, j) == toks[1 + 16 * (k - 1) + j]

\* The text is a mapping from string keys to objects of three string
\* key/value pairs.
IsMappingOfObjects(toks) ==
    /\ Len(toks) >= 2
    /\ toks[1] = Punct("{") /\ toks[Len(toks)] = Punct("}")
    /\ \/ Len(toks) = 2
       \/ Len(toks) = 16 * ArgsCount(toks) + 1 /\ ArgsCount(toks) >= 1
    /\ \A k \in 1..ArgsCount(toks) :
          /\ IsStringTok(ArgTok(toks, k, 1))
          /\ ArgTok(toks, k, 2) = Punct(":")
          /\ ArgTok(toks, k, 3) = Punct("{")
          /\ \A j \in {5, 9, 13} : ArgTok(toks, k, j) = Punct(":")
          /\ \A j \in {7, 11} : ArgTok(toks, k, j) = Punct(",")
          /\ \A j \in {4, 8, 12, 6, 10, 14} : IsStringTok(ArgTok(toks, k, j))
          /\ ArgTok(toks, k, 15) = Punct("}")
          /\ k < ArgsCount(toks) => ArgTok(toks, k, 16) = Punct(",")

ArgNames(toks) == [k \in 1..ArgsCount(toks) |-> ArgTok(toks, k, 1).str]
ArgKeys(toks, k) == {ArgTok(toks, k, j).str : j \in {4, 8, 12}}
ArgField(toks, k, key) ==
    LET j == CHOOSE j \in {4, 8, 12} : ArgTok(toks, k, j).str = key
    IN  ArgTok(toks, k, j + 2).str

\* ---- the returned manifest of the current state
Manifest == tools_json.value
EntryIndexes == 1..ManifestCount(Manifest)
EntryFunction(k) == EntryValue(Manifest, k, s_function)
EntryArgs(k) == LexFrom(EntryValue(Manifest, k, s_arguments), 1)
MemberNamed(name) == CHOOSE m \in cls.members : m.name = name
EntryMember(k) == MemberNamed(EntryFunction(k))
FourKeys == <<s_agent, s_function, s_description, s_arguments>>

\* The manifest has the shape the other properties read it by.
Readable ==
    /\ tools_json.called
    /\ IsArrayOfEntries(Manifest)
    /\ \A k \in EntryIndexes :
          LET args == EntryArgs(k)
          IN  /\ EntryKeys(Manifest, k) = FourKeys
              /\ IsMappingOfObjects(args)
              /\ \A a \in 1..ArgsCount(args) :
                    ArgKeys(args, a) = {s_description, s_title, s_type}
              /\ \E m \in cls.members : m.name = EntryFunction(k)

Public(name) == name = <<>> \/ name[1] # "_"

C2_ManifestShape ==
    tools_json.called =>
        /\ IsArrayOfEntries(Manifest)
        /\ \A k \in EntryIndexes :
              LET args == EntryArgs(k)
              IN  /\ EntryKeys(Manifest, k) = FourKeys
                  /\ EntryValue(Manifest, k, s_agent) = cls.agent_name
                  /\ IsMappingOfObjects(args)
                  /\ \A a \in 1..ArgsCount(args) :
                        /\ Cardinality(ArgKeys(args, a)) = 3
                        /\ ArgKeys(args, a) = {s_description, s_title, s_type}

\* The two-entry manifest of a class whose agent_name is not the HR one.
C2_Witness ==
    /\ tools_json.called
    /\ cls.agent_name = s_Tech_Agent
    /\ ManifestCount(Manifest) = 2
    /\ \A k \in EntryIndexes : ArgsCount(EntryArgs(k)) = 1

\* =========================================================================
\* C3  In every entry the keys of the arguments mapping are the parameter
\* names of the method's signature, in signature order, without any
\* parameter named 'cls' or 'self'; for each key p the description is p and
\* the title is p with underscores replaced by spaces and title-cased.
\* =========================================================================
NotClsSelf(p) == p.name # s_cls /\ p.name # s_self
NamesOf(ps) == [j \in 1..Len(ps) |-> ps[j].name]

\* Each '_' is a space; a letter that starts a run of letters is upper case,
\* every other letter lower case; anything else is kept.
IsTitleOf(title, p) ==
    /\ Len(title) = Len(p)
    /\ \A k \in 1..Len(p) :
          title[k] = IF p[k] = "_" THEN " "
                     ELSE IF ~ IsCased(p[k]) THEN p[k]
                     ELSE IF k = 1 \/ ~ IsCased(p[k - 1]) THEN ToUpper(p[k])
                     ELSE ToLower(p[k])

C3_ArgumentNames ==
    tools_json.called =>
        /\ Readable
        /\ \A k \in EntryIndexes :
              LET args == EntryArgs(k)
              IN  /\ ArgNames(args) = NamesOf(SelectSeq(EntryMember(k).params, NotClsSelf))
                  /\ \A a \in 1..ArgsCount(args) :
                        LET p == ArgTok(args, a, 1).str
                        IN  /\ ArgField(args, a, s_description) = p
                            /\ IsTitleOf(ArgField(args, a, s_title), p)

\* A method (self, a1b_URL): the one argument a1b_URL, titled "A1B Url".
C3_Witness ==
    /\ tools_json.called
    /\ \E k \in EntryIndexes :
          /\ NamesOf(EntryMember(k).params) = <<s_self, s_a1b_URL>>
          /\ ArgNames(EntryArgs(k)) = <<s_a1b_URL>>
          /\ ArgField(EntryArgs(k), 1, s_title) = <<"A", "1", "B", " ", "U", "r", "l">>

\* =========================================================================
\* C8  The description of an entry is the description carried by the
\* method's kernel-function marker when that is non-empty; otherwise the
\* method's docstring with surrounding whitespace stripped when the
\* docstring is non-empty; otherwise the empty string.
\* =========================================================================
AllSpace(str) == \A k \in 1..Len(str) : IsSpace(str[k])

\* d is str with the whitespace at both ends removed
IsStripOf(d, str) ==
    /\ d = <<>> \/ (~ IsSpace(d[1]) /\ ~ IsSpace(d[Len(d)]))
    /\ \E a \in 0..Len(str) :
          /\ a + Len(d) <= Len(str)
          /\ SubSeq(str, a + 1, a + Len(d)) = d
          /\ AllSpace(SubSeq(str, 1, a))
          /\ AllSpace(SubSeq(str, a + Len(d) + 1, Len(str)))

C8_DescriptionPrecedence ==
    tools_json.called =>
        /\ Readable
        /\ \A k \in EntryIndexes :
              LET m == EntryMember(k)
                  d == EntryValue(Manifest, k, s_description)
              IN  IF m.marker.description.some /\ m.marker.description.v # <<>>
                  THEN d = m.marker.description.v
                  ELSE IF m.doc.some /\ m.doc.v # <<>>
                       THEN IsStripOf(d, m.doc.v)
                       ELSE d = <<>>

\* A method with both a marker description and a docstring.
C8_Witness ==
    /\ tools_json.called
    /\ \E k \in EntryIndexes :
          /\ EntryMember(k).marker.description = Some(desc_short)
          /\ EntryMember(k).doc = Some(doc_padded)
          /\ EntryValue(Manifest, k, s_description) = desc_short

\* =========================================================================
\* C9  The type of a parameter in the manifest is 'string' when it has no
\* type hint; the lower-cased name of the hint when the hint has a name;
\* otherwise, by the lower-cased text of the hint, 'int' if it contains
\* 'int', else 'float' if it contains 'float', else 'boolean' if it contains
\* 'bool', else 'string'.
\* =========================================================================
ParamNamed(m, name) == CHOOSE j \in 1..Len(m.params) : m.params[j].name = name

C9_ParameterTypes ==
    tools_json.called =>
        /\ Readable
        /\ \A k \in EntryIndexes :
             \A a \in 1..ArgsCount(EntryArgs(k)) :
                LET m == EntryMember(k)
                    args == EntryArgs(k)
                    name == ArgTok(args, a, 1).str
                    type == ArgField(args, a, s_type)
                IN  /\ \E j \in 1..Len(m.params) : m.params[j].name = name
                    /\ LET hint == m.params[ParamNamed(m, name)].hint
                           text == Lower(hint.text)
                       IN  CASE ~ hint.present -> type = s_string
                             [] hint.present /\ hint.has_name -> type = Lower(hint.name)
                             [] OTHER ->
                                  /\ Contains(s_int, text) => type = s_int
                                  /\ ~ Contains(s_int, text) /\ Contains(s_float, text)
                                        => type = s_float
                                  /\ ~ Contains(s_int, text) /\ ~ Contains(s_float, text)
                                        /\ Contains(s_bool, text) => type = s_boolean
                                  /\ ~ Contains(s_int, text) /\ ~ Contains(s_float, text)
                                        /\ ~ Contains(s_bool, text) => type = s_string

\* A parameter hinted float | int is typed 'int'; one hinted KernelFunction
\* 'kernelfunction'.
C9_Witness ==
    /\ tools_json.called
    /\ \E k \in EntryIndexes :
          /\ ArgsCount(EntryArgs(k)) = 2
          /\ EntryMember(k).params[1].hint = UnnamedType(repr_float_or_int)
          /\ ArgField(EntryArgs(k), 1, s_type) = s_int
          /\ EntryMember(k).params[2].hint = t_KernelFunction
          /\ ArgField(EntryArgs(k), 2, s_type) = Lower(s_KernelFunction)

\* =========================================================================
\* C4  get_all_kernel_functions returns a dictionary whose keys are exactly
\* the names of the methods of the class that have the @kernel_function
\* annotation, each mapped to that method's function object;
\* get_all_kernel_functions itself is never a key, and no method lacking the
\* annotation is ever a key.  (Stated here for the public member functions,
\* which is all the loop of lines 76-79 looks at.)
\* =========================================================================
KernelFunctionKeys ==
    {kernel_functions.value[k].key : k \in 1..Len(kernel_functions.value)}

C4_KeysExactlyAnnotated ==
    kernel_functions.called =>
        /\ s_get_all_kernel_functions \notin KernelFunctionKeys
        /\ \A k \in 1..Len(kernel_functions.value) :
              /\ kernel_functions.value[k].value \in cls.members
              /\ kernel_functions.value[k].value.name = kernel_functions.value[k].key
              /\ kernel_functions.value[k].value.marker.present
        /\ \A m \in cls.members :
              ( /\ m.kind = "function" /\ m.marker.present /\ Public(m.name)
                /\ m.name # s_get_all_kernel_functions )
                 => m.name \in KernelFunctionKeys

\* =========================================================================
\* C5  Operations have no shared mutable state: however save_to_excel calls
\* (and the other operations) interleave, the bytes a save_to_excel call
\* returns are those of the workbook built from its own html_content.
\* =========================================================================
TableElements(h) == FindAll(h)

\* The sheets of the workbook of h: one per <table>, in document order, the
\* k-th named Table_k and holding the first frame parsed from that table.
SheetsOf(h) ==
    [k \in 1..Len(TableElements(h)) |->
        [name |-> "Table_" \o ToString(k), df |-> ReadHtml(TableElements(h)[k])[1]]]

C5_OwnWorkbookOnly ==
    \A c \in Calls :
        op[c] = "save_to_excel" /\ pc[c] = "done" =>
            result[c] = BytesValue(Workbook(SheetsOf(html_content[c])))

\* =========================================================================
\* C6  read_document_contents returns the same hardcoded HTML string for
\* every document: any two calls, whatever their arguments and the state
\* they run in, return equal results, and the call changes no state (only
\* the call's own frame).
\* =========================================================================
ReadDone(c) == op[c] = "read_document_contents" /\ pc[c] = "done"

C6_SameResult ==
    \A c \in Calls :
        ReadDone(c) =>
            /\ result[c] = StrValue(HardcodedHtml)
            /\ last_read.some => result[c] = last_read.result
            /\ \A d \in Calls : ReadDone(d) => result[c] = result[d]

C6_NoEffect ==
    \A c \in Calls :
        (~ ReadDone(c) /\ ReadDone(c)') =>
            /\ file' = file
            /\ excel_writer' = excel_writer
            /\ tables' = tables /\ i' = i /\ html_content' = html_content
            /\ error' = error
            /\ \A d \in Calls \ {c} : result'[d] = result[d] /\ pc'[d] = pc[d]

C6_ReadIsConstant == [] C6_SameResult /\ [][C6_NoEffect]_vars

\* A read of one document after a read of the other, with output.xlsx
\* written in between.
C6_Witness ==
    \E c \in Calls :
        /\ ReadDone(c)
        /\ last_read.some /\ last_read.document # document[c]
        /\ file.state = "xlsx"

\* =========================================================================
\* C7  save_to_excel handles no failure itself: when converting a table,
\* writing a sheet, closing the writer or reading output.xlsx back fails,
\* the call ends with that failure, returns no bytes, and processes no table
\* after the failing one.
\* =========================================================================
Converts(table) == ReadHtml(table) # <<>>
Fits(table) == ReadHtml(table)[1].rows # "over"

C7_FailuresPropagate ==
    \A c \in Calls :
        op[c] = "save_to_excel" =>
            \* a call that ended in a failure returned nothing
            /\ pc[c] = "raised" => result[c] = NoValue /\ error[c] # NoError
            /\ pc[c] # "raised" => error[c] = NoError
            \* a failure at table k: the tables before it are the sheets
            \* written, table k is the one that fails, none after it is touched
            /\ error[c].at \in {"read_html", "to_excel"} =>
                  /\ pc[c] = "raised"
                  /\ error[c].table \in 1..Len(tables[c])
                  /\ i[c] = error[c].table - 1
                  /\ Len(excel_writer[c].sheets) = error[c].table - 1
                  /\ ~ excel_writer[c].closed
                  /\ error[c].at = "read_html" <=> ~ Converts(tables[c][error[c].table])
                  /\ error[c].at = "to_excel" =>
                        ~ Fits(tables[c][error[c].table])
            /\ error[c].at = "close" => ~ excel_writer[c].closed
            \* no failing table is passed over: the loop is left only when
            \* every table was converted and written
            /\ (pc[c] \in {"read", "done"} \/ error[c].at \in {"close", "open"}) =>
                  \A k \in 1..Len(tables[c]) :
                      Converts(tables[c][k]) /\ Fits(tables[c][k])

\* A failure at a table that is not the last: the later ones stay untouched.
C7_Witness ==
    \E c \in Calls :
        /\ pc[c] = "raised"
        /\ error[c].at = "to_excel"
        /\ error[c].table = 2
        /\ Len(tables[c]) = 3
        /\ Len(excel_writer[c].sheets) = 1

\* =========================================================================
\* C10  On success save_to_excel writes exactly one sheet per <table>
\* element of html_content, in document order, the k-th table to the sheet
\* 'Table_k' holding the first data frame parsed from it; the writer is
\* closed before output.xlsx is read, and the bytes returned are the
\* contents of output.xlsx when it is read, after that close.
\* =========================================================================
RECURSIVE TableCount(_)
TableCount(nodes) ==
    IF nodes = <<>> THEN 0
    ELSE (IF Head(nodes).tag = "table" THEN 1 ELSE 0)
         + TableCount(Head(nodes).kids) + TableCount(Tail(nodes))

C10_Sheets ==
    \A c \in Calls :
        (op[c] = "save_to_excel" /\ pc[c] \in {"read", "done"}) =>
            /\ Len(excel_writer[c].sheets) = TableCount(html_content[c])
            /\ excel_writer[c].sheets = SheetsOf(html_content[c])
            /\ excel_writer[c].closed
            /\ pc[c] = "done" => result[c].type = "bytes"

C10_CloseThenRead ==
    \A c \in Calls :
        /\ (pc[c] = "read" /\ pc'[c] = "done") =>
              /\ excel_writer[c].closed
              /\ result'[c] = BytesValue(file)
        /\ (~ excel_writer[c].closed /\ excel_writer'[c].closed) =>
              /\ result[c] = NoValue /\ result'[c] = NoValue
              /\ file' = Workbook(excel_writer[c].sheets)

C10_SheetPerTable == [] C10_Sheets /\ [][C10_CloseThenRead]_vars

\* A table nested in a table gives two sheets, the outer one first.
C10_Witness ==
    \E c \in Calls :
        /\ op[c] = "save_to_excel" /\ pc[c] = "done"
        /\ Len(html_content[c]) = 2
        /\ Len(excel_writer[c].sheets) = 3
        /\ excel_writer[c].sheets[1].df.src = "N"
        /\ excel_writer[c].sheets[2] = [name |-> "Table_2", df |-> [src |-> "I", rows |-> "some"]]
        /\ result[c] = BytesValue(Workbook(excel_writer[c].sheets))

====
